---- MODULE Spec2Model ----
(***************************************************************************)
(* Model of the JANUS integrator of REBOUND (src/src/integrator_janus.c).  *)
(*                                                                         *)
(* Real numbers (C double) are modelled as exact rationals [n, d] in       *)
(* lowest terms with d > 0.  Lattice values (struct reb_particle_int) are  *)
(* integers.  The conversion between the two is modelled by what it does:  *)
(* to_int multiplies by the scale and truncates toward zero (the C cast),  *)
(* to_double divides by the scale.  The integer storage type of            *)
(* struct reb_particle_int is declared outside this file; the model keeps  *)
(* every lattice value inside the storage range (the bounds are small).    *)
(*                                                                         *)
(* The force evaluator (reb_update_acceleration) and the companion         *)
(* integration step (reb_step with WHFAST selected) are collaborators      *)
(* whose code is not part of this file; they are modelled from their       *)
(* description.                                                            *)
(***************************************************************************)
EXTENDS Integers, Sequences, FiniteSets, TLC

VARIABLES
    r,          \* struct reb_simulation: t, dt, N, integrator, status, particles, gravity_ignore_terms
    ri_janus,   \* struct reb_simulation_integrator_janus: scale, allocated_N, p_prev, p_curr, p_next, p_prevrecalc
    force,      \* which force law the external evaluator implements ("zero" or "spring")
    call,       \* record of the most recent call: entry state, and the states inside Bootstrap
    epoch,      \* counters since construction or the last reset
    oob,        \* TRUE once a memcpy of Flip was asked to go past the end of a buffer
    steps,      \* number of step-phase-one calls made so far (bounded)
    changes,    \* number of times the host changed its particle count (bounded)
    phase,      \* position of the scripted host ("free" when the host is unscripted)
    hist,       \* scripted host: the (prev, curr) position pairs P_0, P_1, ... of the forward run
    kfwd        \* scripted host: the number k of forward steps

vars == <<r, ri_janus, force, call, epoch, oob, steps, changes, phase, hist, kfwd>>

-----------------------------------------------------------------------------
(* Bounds of the model *)

MaxN == 2        \* largest particle count the host uses
MaxSteps == 2    \* largest number of step-phase-one calls of the unscripted host
MaxChanges == 1  \* largest number of particle-count changes of the unscripted host
MaxK == 5        \* largest number k of forward steps of the scripted host

-----------------------------------------------------------------------------
(* Rational arithmetic standing for C double arithmetic *)

Abs(a) == IF a < 0 THEN -a ELSE a

RECURSIVE GCD(_, _)
GCD(a, b) == IF b = 0 THEN a ELSE GCD(b, a % b)

Rat(n, d) ==
    LET s == IF d < 0 THEN -1 ELSE 1
        g == GCD(Abs(n), Abs(d))
    IN  [n |-> (s * n) \div g, d |-> (s * d) \div g]

RInt(i) == [n |-> i, d |-> 1]
RZero == RInt(0)
RNeg(a) == [n |-> -a.n, d |-> a.d]
RAdd(a, b) == Rat(a.n * b.d + b.n * a.d, a.d * b.d)
RMul(a, b) ==
    LET g1 == GCD(Abs(a.n), b.d)
        g2 == GCD(Abs(b.n), a.d)
    IN  [n |-> (a.n \div g1) * (b.n \div g2), d |-> (a.d \div g2) * (b.d \div g1)]
RDiv(a, b) == RMul(a, Rat(b.d, b.n))

\* The C conversion of a double to an integer type: truncation toward zero.
Trunc(a) == IF a.n >= 0 THEN a.n \div a.d ELSE -((-a.n) \div a.d)

-----------------------------------------------------------------------------
(* Doubles kept bit for bit: the host time *)

\* An IEEE-754 binary64 value: [s, e, hi, lo] is
\*     s * (hi * 2^26 + lo) * 2^(e - 52),      s in {-1, 0, 1}.
\* A nonzero value has 2^26 <= hi < 2^27 and 0 <= lo < 2^26, its 53
\* significant bits; zero is DZero.  Below, a significand in work is
\* [hi, lo, rem]: rem holds three further bits, the last one sticky.
DZero == [s |-> 0, e |-> 0, hi |-> 0, lo |-> 0]

\* Round to nearest, ties to even.
DRound(s, e, hi, lo, rem) ==
    CHOOSE n \in
        { LET up == w[3] > 4 \/ (w[3] = 4 /\ w[2] % 2 = 1)
              lo1 == IF up THEN w[2] + 1 ELSE w[2]
              hi1 == IF lo1 = 2^26 THEN w[1] + 1 ELSE w[1]
              lo2 == IF lo1 = 2^26 THEN 0 ELSE lo1
          IN  IF hi1 = 2^27
              THEN [s |-> s, e |-> e + 1, hi |-> 2^26, lo |-> 0]
              ELSE [s |-> s, e |-> e, hi |-> hi1, lo |-> lo2] :
          w \in {<<hi, lo, rem>>} } : TRUE

\* The significand v shifted right by k bits (0 <= k <= 56); what falls off
\* is kept in the sticky bit.  low is lo followed by the first two bits of rem.
DShiftRight(v, k) ==
    CHOOSE n \in
        { LET low == w.lo * 4 + w.rem \div 2
              st == w.rem % 2
              hi1 == IF k <= 27 THEN w.hi \div 2^k ELSE 0
              low1 == IF k = 0 THEN low
                      ELSE IF k <= 27 THEN (w.hi % 2^k) * 2^(28 - k) + low \div 2^k
                      ELSE IF k <= 55 THEN w.hi \div 2^(k - 28)
                      ELSE 0
              lost == IF k = 0 THEN 0
                      ELSE IF k <= 27 THEN low % 2^k
                      ELSE IF k <= 55 THEN (w.hi % 2^(k - 28)) + low
                      ELSE w.hi + low
          IN  [hi  |-> hi1,
               lo  |-> low1 \div 4,
               rem |-> (low1 % 4) * 2 + (IF lost > 0 \/ st = 1 THEN 1 ELSE 0)] :
          w \in {v} } : TRUE

\* The significand m.v shifted left by k bits (1 <= k <= 27) when its k
\* leading bits are zero, the exponent m.e lowered with it; m otherwise.
DShiftLeftIf(m, k) ==
    CHOOSE n \in
        { IF w.v.hi >= 2^(27 - k) THEN w
          ELSE LET low == w.v.lo * 8 + w.v.rem
                   low1 == (low % 2^(29 - k)) * 2^k
               IN  [v |-> [hi  |-> w.v.hi * 2^k + low \div 2^(29 - k),
                           lo  |-> low1 \div 8,
                           rem |-> low1 % 8],
                    e |-> w.e - k] :
          w \in {m} } : TRUE

\* The nonzero significand v shifted left until its leading bit is in place.
DNormalize(v, e) ==
    DShiftLeftIf(DShiftLeftIf(DShiftLeftIf(DShiftLeftIf(DShiftLeftIf(
        DShiftLeftIf(DShiftLeftIf([v |-> v, e |-> e], 16), 16), 16),
        8), 4), 2), 1)

\* |a| < |b|, for nonzero doubles.
DMagLess(a, b) ==
    \/ a.e < b.e
    \/ a.e = b.e /\ (a.hi < b.hi \/ (a.hi = b.hi /\ a.lo < b.lo))

\* x + y for nonzero doubles of the same sign, |x| >= |y|; ys is the
\* significand of y aligned with that of x.
DSameSign(x, ys) ==
    CHOOSE n \in
        { DRound(x.s, IF v.hi >= 2^27 THEN x.e + 1 ELSE x.e,
                 IF v.hi >= 2^27 THEN DShiftRight(v, 1).hi ELSE v.hi,
                 IF v.hi >= 2^27 THEN DShiftRight(v, 1).lo ELSE v.lo,
                 IF v.hi >= 2^27 THEN DShiftRight(v, 1).rem ELSE v.rem) :
          v \in { [hi  |-> x.hi + ys.hi + (x.lo + ys.lo) \div 2^26,
                   lo  |-> (x.lo + ys.lo) % 2^26,
                   rem |-> ys.rem] } } : TRUE

\* x + y for nonzero doubles of opposite signs, |x| >= |y|.
DOppositeSign(x, ys) ==
    CHOOSE n \in
        { IF v.hi = 0 /\ v.lo = 0 /\ v.rem = 0
          THEN DZero
          ELSE LET m == DNormalize(v, x.e)
               IN  DRound(x.s, m.e, m.v.hi, m.v.lo, m.v.rem) :
          v \in { LET b0 == IF ys.rem > 0 THEN 1 ELSE 0
                      lo0 == x.lo - ys.lo - b0
                  IN  [hi  |-> x.hi - ys.hi - (IF lo0 < 0 THEN 1 ELSE 0),
                       lo  |-> IF lo0 < 0 THEN lo0 + 2^26 ELSE lo0,
                       rem |-> IF ys.rem > 0 THEN 8 - ys.rem ELSE 0] } } : TRUE

\* x + y for nonzero doubles, |x| >= |y|.
DAligned(x, y) ==
    CHOOSE n \in
        { IF x.s = y.s THEN DSameSign(x, ys) ELSE DOppositeSign(x, ys) :
          ys \in { DShiftRight([hi |-> y.hi, lo |-> y.lo, rem |-> 0],
                               IF x.e - y.e > 56 THEN 56 ELSE x.e - y.e) } } : TRUE

\* a + b in double arithmetic: the exact sum, rounded once.
DoubleAdd(a, b) ==
    CHOOSE n \in
        { IF w[1].s = 0 THEN w[2]
          ELSE IF w[2].s = 0 THEN w[1]
          ELSE IF DMagLess(w[1], w[2]) THEN DAligned(w[2], w[1])
          ELSE DAligned(w[1], w[2]) :
          w \in {<<a, b>>} } : TRUE

RECURSIVE DScale(_, _, _)
\* a, d and e with d <= a < 2*d and the same value of (a / d) * 2^e.
DScale(a, d, e) ==
    CHOOSE n \in { IF w[1] >= 2 * w[2] THEN DScale(w[1], 2 * w[2], e + 1)
                   ELSE IF w[1] < w[2] THEN DScale(2 * w[1], w[2], e - 1)
                   ELSE [a |-> w[1], d |-> w[2], e |-> e] : w \in {<<a, d>>} } : TRUE

RECURSIVE DQuotient(_, _, _, _)
\* k further bits of the quotient rem / d, appended to acc, and the remainder
\* they leave; developed eight bits at a time (rem < d < 2^23).
DQuotient(acc, rem, d, k) ==
    CHOOSE n \in
        { IF k = 0 THEN [acc |-> w[1], rem |-> w[2]]
          ELSE LET c == IF k < 8 THEN k ELSE 8
               IN  DQuotient(w[1] * 2^c + (w[2] * 2^c) \div d,
                             (w[2] * 2^c) % d, d, k - c) :
          w \in {<<acc, rem>>} } : TRUE

\* The double a decimal literal or a small rational denotes: the nearest one
\* (26 bits after the leading one, 26 more, two guard bits and a sticky bit).
ToDouble(q) ==
    IF q.n = 0 THEN DZero
    ELSE CHOOSE n \in
        { LET h == DQuotient(1, sc.a - sc.d, sc.d, 26)
              l == DQuotient(0, h.rem, sc.d, 26)
              g == DQuotient(0, l.rem, sc.d, 2)
          IN  DRound(IF q.n > 0 THEN 1 ELSE -1, sc.e, h.acc, l.acc,
                     g.acc * 2 + (IF g.rem > 0 THEN 1 ELSE 0)) :
          sc \in { DScale(Abs(q.n), q.d, 0) } } : TRUE

-----------------------------------------------------------------------------
(* Host constants (enumerations of rebound.h, used by name in the source) *)

REB_INTEGRATOR_JANUS  == "REB_INTEGRATOR_JANUS"
REB_INTEGRATOR_WHFAST == "REB_INTEGRATOR_WHFAST"
REB_RUNNING           == "REB_RUNNING"
REB_RUNNING_LAST_STEP == "REB_RUNNING_LAST_STEP"
REB_EXIT_ERROR        == "REB_EXIT_ERROR"

-----------------------------------------------------------------------------
(* Fixed-point codec: to_int and to_double *)

\* to_int: entries 0..N-1 of psi are overwritten, all six fields.
to_int(psi, ps, N, int_scale) ==
    [i \in 1..Len(psi) |->
        IF i <= N
        THEN [x  |-> Trunc(RMul(ps[i].x, int_scale)),
              y  |-> Trunc(RMul(ps[i].y, int_scale)),
              z  |-> Trunc(RMul(ps[i].z, int_scale)),
              vx |-> Trunc(RMul(ps[i].vx, int_scale)),
              vy |-> Trunc(RMul(ps[i].vy, int_scale)),
              vz |-> Trunc(RMul(ps[i].vz, int_scale))]
        ELSE psi[i]]

\* Mutant of to_double: the y coordinate is decoded from the x field.
to_double_yFromX(ps, psi, N, int_scale) ==
    [i \in 1..Len(ps) |->
        IF i <= N
        THEN [ps[i] EXCEPT !.x = RDiv(RInt(psi[i].x), int_scale),
                           !.y = RDiv(RInt(psi[i].x), int_scale),
                           !.z = RDiv(RInt(psi[i].z), int_scale)]
        ELSE ps[i]]

\* to_double: only the positions of entries 0..N-1 of ps are overwritten.
to_double(ps, psi, N, int_scale) ==
    [i \in 1..Len(ps) |->
        IF i <= N
        THEN [ps[i] EXCEPT !.x = RDiv(RInt(psi[i].x), int_scale),
                           !.y = RDiv(RInt(psi[i].y), int_scale),
                           !.z = RDiv(RInt(psi[i].z), int_scale)]
        ELSE ps[i]]

-----------------------------------------------------------------------------
(* Data *)

\* A struct reb_particle with the given position and velocity (reals), zero
\* acceleration and unit mass.
Particle(x, y, z, vx, vy, vz) ==
    [x |-> x, y |-> y, z |-> z, vx |-> vx, vy |-> vy, vz |-> vz,
     ax |-> RZero, ay |-> RZero, az |-> RZero, m |-> RInt(1)]

\* The value of a lattice field that was never written since its block came
\* from malloc/realloc: whatever the allocator left there (zero, a pattern,
\* the contents of a released block, an allocator pointer).  It stands for
\* every value of the field's type; it can be copied, and no arithmetic is
\* defined on it.
Indeterminate == "indeterminate"

\* A struct reb_particle_int with every field equal to v.
IntParticle(v) == [x |-> v, y |-> v, z |-> v, vx |-> v, vy |-> v, vz |-> v]

\* The particles the host may hold or add.
BodyA == Particle(Rat(11, 8), RZero, Rat(-3, 4), Rat(1, 2), RZero, Rat(-1, 4))
BodyB == Particle(Rat(-1, 2), Rat(3, 8), RZero, RZero, Rat(3, 4), RZero)
NewParticles == {BodyB}

\* The particle array a host of n particles starts with.
InitialParticles(n) == [i \in 1..n |-> IF i % 2 = 1 THEN BodyA ELSE BodyB]

\* The contents of an entry of a block returned by malloc/realloc that was
\* never written: every field indeterminate.
Uninit == { IntParticle(Indeterminate) }

\* The run status the companion step may leave behind: unchanged, or abnormal.
ProbeStatus(rr) == { rr.status, REB_EXIT_ERROR }

\* The positions held by a generation buffer, per body.
Pos(buf) == [i \in 1..Len(buf) |-> <<buf[i].x, buf[i].y, buf[i].z>>]

\* The positions held by the host particle array, per body.
HostPos(ps) == [i \in 1..Len(ps) |-> <<ps[i].x, ps[i].y, ps[i].z>>]

-----------------------------------------------------------------------------
(* External collaborators *)

\* The force evaluator: writes the acceleration of every body as a function
\* of the positions alone ("zero": no force; "spring": a = -x per axis).
reb_update_acceleration(rr, f) ==
    [rr EXCEPT !.particles =
        [i \in 1..Len(rr.particles) |->
            IF f = "zero"
            THEN [rr.particles[i] EXCEPT !.ax = RZero, !.ay = RZero, !.az = RZero]
            ELSE [rr.particles[i] EXCEPT !.ax = RNeg(rr.particles[i].x),
                                         !.ay = RNeg(rr.particles[i].y),
                                         !.az = RNeg(rr.particles[i].z)]]]

\* One step of the companion scheme with the host's current timestep:
\* positions drift, velocities are kicked, time advances, and the run
\* status is left as st.
reb_step(rr, f, st) ==
    LET ra == reb_update_acceleration(rr, f)
    IN  [ra EXCEPT
            !.particles =
                [i \in 1..Len(ra.particles) |->
                    LET p == ra.particles[i]
                    IN  [p EXCEPT !.x  = RAdd(p.x, RMul(p.vx, rr.dt)),
                                  !.y  = RAdd(p.y, RMul(p.vy, rr.dt)),
                                  !.z  = RAdd(p.z, RMul(p.vz, rr.dt)),
                                  !.vx = RAdd(p.vx, RMul(p.ax, rr.dt)),
                                  !.vy = RAdd(p.vy, RMul(p.ay, rr.dt)),
                                  !.vz = RAdd(p.vz, RMul(p.az, rr.dt))]],
            !.t = DoubleAdd(rr.t, ToDouble(rr.dt)),
            !.status = st]

-----------------------------------------------------------------------------
(* Memory primitives *)

\* realloc(buf, n entries): the old contents up to the smaller size are kept,
\* anything beyond them is indeterminate (g).
Realloc(buf, n, g) == [i \in 1..n |-> IF i <= Len(buf) THEN buf[i] ELSE g]

\* memcpy(dst, src, N entries).  Defined when both blocks hold N entries; a
\* caller that cannot guarantee it is modelled with OutOfBounds below.
Memcpy(dst, src, N) ==
    [i \in 1..Len(dst) |-> IF i <= N THEN src[i] ELSE dst[i]]

\* A memcpy of N entries between blocks of these lengths goes past the end
\* of one of them (a NULL block has length 0).
OutOfBounds(lens, N) == \E l \in lens : N > l

\* The instance after a copy went past the end of a block: the process was
\* killed, or memory next to the block was overwritten.  No entry of any
\* buffer is determinate any more.
Clobbered(ri) ==
    [ri EXCEPT !.p_prev = [i \in 1..Len(@) |-> IntParticle(Indeterminate)],
               !.p_curr = [i \in 1..Len(@) |-> IntParticle(Indeterminate)],
               !.p_next = [i \in 1..Len(@) |-> IntParticle(Indeterminate)],
               !.p_prevrecalc = [i \in 1..Len(@) |-> IntParticle(Indeterminate)]]

-----------------------------------------------------------------------------
(* reb_integrator_janus_part1: Bootstrap *)

\* The test that triggers Bootstrap.
NeedsBootstrap(ri, N) == ri.allocated_N # N

\* Mutant of Resize: the new count is not stored.
Resize_countNotStored(ri, N, g) ==
    [ri EXCEPT !.p_prev = Realloc(@, N, g),
               !.p_next = Realloc(@, N, g),
               !.p_prevrecalc = Realloc(@, N, g),
               !.p_curr = Realloc(@, N, g)]

\* The four buffers are resized to N entries and the count is stored.
Resize(ri, N, g) ==
    [ri EXCEPT !.allocated_N = N,
               !.p_prev = Realloc(@, N, g),
               !.p_next = Realloc(@, N, g),
               !.p_prevrecalc = Realloc(@, N, g),
               !.p_curr = Realloc(@, N, g)]

\* The host as handed to the companion step: selector and timestep overridden.
ProbeSetup(rr, dt) ==
    [rr EXCEPT !.integrator = REB_INTEGRATOR_WHFAST, !.dt = RNeg(dt)]

\* Mutant of RestoreHost: the time is not written back.
RestoreHost_timeNotRestored(rr, t, dt, orig, N) ==
    [rr EXCEPT !.status = REB_RUNNING,
               !.dt = dt,
               !.integrator = REB_INTEGRATOR_JANUS,
               !.particles = Memcpy(@, orig, N)]

\* What Bootstrap writes to the host after the companion step returned:
\* t and dt are the values read on entry, orig the copy of the particles.
RestoreHost(rr, t, dt, orig, N) ==
    [rr EXCEPT !.status = REB_RUNNING,
               !.t = t,
               !.dt = dt,
               !.integrator = REB_INTEGRATOR_JANUS,
               !.particles = Memcpy(@, orig, N)]

\* Mutant of Bootstrap: p_prev is encoded after the particles were restored.
Bootstrap_prevAfterRestore(rr, ri, f, st, g) ==
    LET t == rr.t
        dt == rr.dt
        N == rr.N
        int_scale == ri.scale
        orig == SubSeq(rr.particles, 1, N)
        ri1 == Resize(ri, N, g)
        ri2 == [ri1 EXCEPT !.p_curr = to_int(@, rr.particles, N, int_scale)]
        r1 == ProbeSetup(rr, dt)
        r2 == reb_step(r1, f, st)
        r3 == RestoreHost(r2, t, dt, orig, N)
        ri3 == [ri2 EXCEPT !.p_prev = to_int(@, r3.particles, N, int_scale)]
    IN  [r |-> r3, ri |-> ri3, atProbe |-> r1, riAtProbe |-> ri2, probed |-> r2]

\* The whole of Bootstrap.  st is the run status the companion step leaves,
\* g the contents of freshly allocated memory.  The result holds the host
\* and the instance when Bootstrap finishes, and the states in between.
Bootstrap(rr, ri, f, st, g) ==
    LET t == rr.t
        dt == rr.dt
        N == rr.N
        int_scale == ri.scale
        orig == SubSeq(rr.particles, 1, N)
        ri1 == Resize(ri, N, g)
        ri2 == [ri1 EXCEPT !.p_curr = to_int(@, rr.particles, N, int_scale)]
        r1 == ProbeSetup(rr, dt)
        r2 == reb_step(r1, f, st)
        ri3 == [ri2 EXCEPT !.p_prev = to_int(@, r2.particles, N, int_scale)]
        r3 == RestoreHost(r2, t, dt, orig, N)
    IN  [r |-> r3, ri |-> ri3, atProbe |-> r1, riAtProbe |-> ri2, probed |-> r2]

-----------------------------------------------------------------------------
(* reb_integrator_janus_part1: the core update *)

\* Mutant of ForceTerm: one factor dt is missing.
ForceTerm_oneDt(int_scale, dt, a) == Trunc(RMul(RMul(int_scale, dt), a))

\* Mutant of ForceTerm: the product is rounded down instead of toward zero.
ForceTerm_roundsDown(int_scale, dt, a) ==
    LET q == RMul(RMul(RMul(int_scale, dt), dt), a) IN q.n \div q.d

\* (__int128)(int_scale*dt*dt*a): the product in real arithmetic, truncated once.
ForceTerm(int_scale, dt, a) == Trunc(RMul(RMul(RMul(int_scale, dt), dt), a))

\* Mutant of NextValue: the factor 2 is missing.
NextValue_noFactorTwo(prev, curr, F) == -prev + curr + F

\* One lattice coordinate of the next generation.
NextValue(prev, curr, F) == -prev + 2 * curr + F

\* Mutant of Velocity: the difference is divided by dt, not by 2*dt.
Velocity_noHalf(next, prev, int_scale, dt) ==
    RDiv(RDiv(RInt(next - prev), int_scale), dt)

\* One velocity component, by central difference.
Velocity(next, prev, int_scale, dt) ==
    RDiv(RDiv(RDiv(RInt(next - prev), int_scale), RInt(2)), dt)

\* Mutant of CoreStep: the host positions are not decoded from p_curr, the
\* force is evaluated at the positions the host holds on entry.
CoreStep_forceAtHostPositions(rr, ri, f, dt, N, int_scale) ==
    LET ra == [rr EXCEPT !.gravity_ignore_terms = 0]
        rb == reb_update_acceleration(ra, f)
        next == [i \in 1..Len(ri.p_next) |->
                    IF i <= N
                    THEN [ri.p_next[i] EXCEPT
                            !.x = NextValue(ri.p_prev[i].x, ri.p_curr[i].x,
                                            ForceTerm(int_scale, dt, rb.particles[i].ax)),
                            !.y = NextValue(ri.p_prev[i].y, ri.p_curr[i].y,
                                            ForceTerm(int_scale, dt, rb.particles[i].ay)),
                            !.z = NextValue(ri.p_prev[i].z, ri.p_curr[i].z,
                                            ForceTerm(int_scale, dt, rb.particles[i].az))]
                    ELSE ri.p_next[i]]
        ps == [i \in 1..Len(rb.particles) |->
                    IF i <= N
                    THEN [rb.particles[i] EXCEPT
                            !.vx = Velocity(next[i].x, ri.p_prev[i].x, int_scale, dt),
                            !.vy = Velocity(next[i].y, ri.p_prev[i].y, int_scale, dt),
                            !.vz = Velocity(next[i].z, ri.p_prev[i].z, int_scale, dt)]
                    ELSE rb.particles[i]]
        prev1 == Memcpy(ri.p_prev, ri.p_curr, N)
        curr1 == Memcpy(ri.p_curr, next, N)
    IN  [r |-> [rb EXCEPT !.particles = ps, !.t = DoubleAdd(rb.t, ToDouble(dt))],
         ri |-> [ri EXCEPT !.p_next = next, !.p_prev = prev1, !.p_curr = curr1]]

\* The update after Bootstrap: decode, evaluate the force, compute next,
\* reconstruct the velocities, rotate the generations, advance time.
\* dt, N and int_scale are the values read on entry to the call.
CoreStep(rr, ri, f, dt, N, int_scale) ==
    LET ra == [rr EXCEPT !.particles = to_double(@, ri.p_curr, N, int_scale),
                         !.gravity_ignore_terms = 0]
        rb == reb_update_acceleration(ra, f)
        next == [i \in 1..Len(ri.p_next) |->
                    IF i <= N
                    THEN [ri.p_next[i] EXCEPT
                            !.x = NextValue(ri.p_prev[i].x, ri.p_curr[i].x,
                                            ForceTerm(int_scale, dt, rb.particles[i].ax)),
                            !.y = NextValue(ri.p_prev[i].y, ri.p_curr[i].y,
                                            ForceTerm(int_scale, dt, rb.particles[i].ay)),
                            !.z = NextValue(ri.p_prev[i].z, ri.p_curr[i].z,
                                            ForceTerm(int_scale, dt, rb.particles[i].az))]
                    ELSE ri.p_next[i]]
        ps == [i \in 1..Len(rb.particles) |->
                    IF i <= N
                    THEN [rb.particles[i] EXCEPT
                            !.vx = Velocity(next[i].x, ri.p_prev[i].x, int_scale, dt),
                            !.vy = Velocity(next[i].y, ri.p_prev[i].y, int_scale, dt),
                            !.vz = Velocity(next[i].z, ri.p_prev[i].z, int_scale, dt)]
                    ELSE rb.particles[i]]
        prev1 == Memcpy(ri.p_prev, ri.p_curr, N)
        curr1 == Memcpy(ri.p_curr, next, N)
    IN  [r |-> [rb EXCEPT !.particles = ps, !.t = DoubleAdd(rb.t, ToDouble(dt))],
         ri |-> [ri EXCEPT !.p_next = next, !.p_prev = prev1, !.p_curr = curr1]]

\* The whole call.  The result holds the host, the instance, and the record
\* of what happened inside the call.
reb_integrator_janus_part1(rr, ri, f, st, g) ==
    LET dt == rr.dt
        N == rr.N
        int_scale == ri.scale
        boot == NeedsBootstrap(ri, N)
        b == IF boot THEN Bootstrap(rr, ri, f, st, g) ELSE [r |-> rr, ri |-> ri]
        c == CoreStep(b.r, b.ri, f, dt, N, int_scale)
    IN  [r |-> c.r,
         ri |-> c.ri,
         call |-> IF boot
                  THEN [op |-> "part1", boots |-> 1, entry |-> rr, alloc0 |-> ri.allocated_N,
                        atProbe |-> b.atProbe, riAtProbe |-> b.riAtProbe,
                        probed |-> b.probed, afterBoot |-> b.r, riAfterBoot |-> b.ri]
                  ELSE [op |-> "part1", boots |-> 0, entry |-> rr, alloc0 |-> ri.allocated_N]]

-----------------------------------------------------------------------------
(* reb_integrator_janus_flip, _part2, _synchronize, _reset *)

\* Mutant of flip: p_curr is overwritten before it was saved.
reb_integrator_janus_flip_noSave(rr, ri) ==
    LET N == rr.N
    IN  IF OutOfBounds({Len(ri.p_prevrecalc), Len(ri.p_curr), Len(ri.p_prev)}, N)
        THEN [ri |-> Clobbered(ri), oob |-> TRUE]
        ELSE LET curr1 == Memcpy(ri.p_curr, ri.p_prev, N)
                 recalc == Memcpy(ri.p_prevrecalc, curr1, N)
                 prev1 == Memcpy(ri.p_prev, recalc, N)
             IN  [ri |-> [ri EXCEPT !.p_prevrecalc = recalc, !.p_curr = curr1,
                                    !.p_prev = prev1],
                  oob |-> FALSE]

\* Mutant of flip: p_next is used as the scratch buffer.
reb_integrator_janus_flip_viaNext(rr, ri) ==
    LET N == rr.N
    IN  IF OutOfBounds({Len(ri.p_next), Len(ri.p_curr), Len(ri.p_prev)}, N)
        THEN [ri |-> Clobbered(ri), oob |-> TRUE]
        ELSE LET next1 == Memcpy(ri.p_next, ri.p_curr, N)
                 curr1 == Memcpy(ri.p_curr, ri.p_prev, N)
                 prev1 == Memcpy(ri.p_prev, next1, N)
             IN  [ri |-> [ri EXCEPT !.p_next = next1, !.p_curr = curr1, !.p_prev = prev1],
                  oob |-> FALSE]

\* Three copies of N = r->N entries through p_prevrecalc.  When N exceeds
\* the length of a buffer (N > 0 on NULL buffers included) the copies go past
\* its end: oob is set and the instance is clobbered.
reb_integrator_janus_flip(rr, ri) ==
    LET N == rr.N
    IN  IF OutOfBounds({Len(ri.p_prevrecalc), Len(ri.p_curr), Len(ri.p_prev)}, N)
        THEN [ri |-> Clobbered(ri), oob |-> TRUE]
        ELSE LET recalc == Memcpy(ri.p_prevrecalc, ri.p_curr, N)
                 curr1 == Memcpy(ri.p_curr, ri.p_prev, N)
                 prev1 == Memcpy(ri.p_prev, recalc, N)
             IN  [ri |-> [ri EXCEPT !.p_prevrecalc = recalc, !.p_curr = curr1,
                                    !.p_prev = prev1],
                  oob |-> FALSE]

\* Mutant of part2: the host time is advanced by the timestep.
reb_integrator_janus_part2_advancesTime(rr, ri) ==
    [r |-> [rr EXCEPT !.t = DoubleAdd(@, ToDouble(rr.dt))], ri |-> ri]

reb_integrator_janus_part2(rr, ri) == [r |-> rr, ri |-> ri]

reb_integrator_janus_synchronize(rr, ri) == [r |-> rr, ri |-> ri]

\* Mutant of reset: nothing is released and the count is kept.
reb_integrator_janus_reset_nothingReleased(ri) == ri

\* p_prev, p_prevrecalc and p_curr are freed and set to NULL; p_next is not touched.
reb_integrator_janus_reset(ri) ==
    [ri EXCEPT !.allocated_N = 0,
               !.p_prev = << >>,
               !.p_prevrecalc = << >>,
               !.p_curr = << >>]

-----------------------------------------------------------------------------
(* The state after construction *)

\* The buffers are empty and the stored count is 0.  The host has selected
\* this integrator: its driver reaches step-phase-one only through the
\* selector, so the selector is REB_INTEGRATOR_JANUS on entry to every call.

HostInit(n, ps, st) ==
    [t |-> DZero, dt |-> Rat(1, 2), N |-> n, integrator |-> REB_INTEGRATOR_JANUS,
     status |-> st, particles |-> ps, gravity_ignore_terms |-> 1]

JanusInit(scale) ==
    [scale |-> scale, allocated_N |-> 0,
     p_prev |-> << >>, p_curr |-> << >>, p_next |-> << >>, p_prevrecalc |-> << >>]

\* The record left by any operation other than step-phase-one and reset.
NoCall == [op |-> "none"]

EpochInit == [stepped |-> FALSE, boots |-> 0, nchanged |-> FALSE]

Init ==
    /\ \E n \in 0..MaxN : \E st \in {REB_RUNNING, REB_RUNNING_LAST_STEP} :
            r = HostInit(n, InitialParticles(n), st)
    /\ ri_janus = JanusInit(RInt(4))
    /\ force \in {"zero", "spring"}
    /\ call = NoCall
    /\ epoch = EpochInit
    /\ oob = FALSE
    /\ steps = 0
    /\ changes = 0
    /\ phase = "free"
    /\ hist = << >>
    /\ kfwd = 0

-----------------------------------------------------------------------------
(* The operations, as state changes *)

\* No call is modelled once a copy went past the end of a block (oob): the
\* process may be dead and what a call would read is indeterminate.

\* step-phase-one: one call of reb_integrator_janus_part1.
Part1Op ==
    /\ ~oob
    /\ \E st \in ProbeStatus(r) : \E g \in Uninit :
        \E res \in {reb_integrator_janus_part1(r, ri_janus, force, st, g)} :
            /\ r' = res.r
            /\ ri_janus' = res.ri
            /\ call' = res.call
            /\ epoch' = [epoch EXCEPT !.stepped = TRUE, !.boots = @ + res.call.boots]
            /\ steps' = steps + 1
            /\ UNCHANGED <<force, oob, changes>>

FlipOp ==
    LET res == reb_integrator_janus_flip(r, ri_janus)
    IN  /\ ~oob
        /\ ri_janus' = res.ri
        /\ oob' = (oob \/ res.oob)
        /\ call' = NoCall
        /\ UNCHANGED <<r, force, epoch, steps, changes>>

Part2Op ==
    LET res == reb_integrator_janus_part2(r, ri_janus)
    IN  /\ ~oob
        /\ r' = res.r
        /\ ri_janus' = res.ri
        /\ call' = NoCall
        /\ UNCHANGED <<force, epoch, oob, steps, changes>>

SynchronizeOp ==
    LET res == reb_integrator_janus_synchronize(r, ri_janus)
    IN  /\ ~oob
        /\ r' = res.r
        /\ ri_janus' = res.ri
        /\ call' = NoCall
        /\ UNCHANGED <<force, epoch, oob, steps, changes>>

ResetOp ==
    /\ ~oob
    /\ ri_janus' = reb_integrator_janus_reset(ri_janus)
    /\ call' = [op |-> "reset"]
    /\ epoch' = EpochInit
    /\ UNCHANGED <<r, force, oob, steps, changes>>

\* The host adds a particle or removes the last one.
HostAddOp ==
    /\ ~oob
    /\ r.N < MaxN
    /\ \E p \in NewParticles :
        r' = [r EXCEPT !.N = @ + 1, !.particles = Append(@, p)]
    /\ call' = NoCall
    /\ epoch' = [epoch EXCEPT !.nchanged = TRUE]
    /\ changes' = changes + 1
    /\ UNCHANGED <<ri_janus, force, oob, steps>>

HostRemoveOp ==
    /\ ~oob
    /\ r.N > 0
    /\ r' = [r EXCEPT !.N = @ - 1, !.particles = SubSeq(@, 1, Len(@) - 1)]
    /\ call' = NoCall
    /\ epoch' = [epoch EXCEPT !.nchanged = TRUE]
    /\ changes' = changes + 1
    /\ UNCHANGED <<ri_janus, force, oob, steps>>

\* The host reverses the direction of time.
HostNegateDtOp ==
    /\ r' = [r EXCEPT !.dt = RNeg(@)]
    /\ call' = NoCall
    /\ UNCHANGED <<ri_janus, force, epoch, oob, steps, changes>>

-----------------------------------------------------------------------------
(* The unscripted host: any sequence of calls *)

script == <<phase, hist, kfwd>>

StepPhaseOne == steps < MaxSteps /\ Part1Op /\ UNCHANGED script
Flip == FlipOp /\ UNCHANGED script
StepPhaseTwo == Part2Op /\ UNCHANGED script
Synchronize == SynchronizeOp /\ UNCHANGED script
Reset == ResetOp /\ UNCHANGED script
HostAdd == changes < MaxChanges /\ HostAddOp /\ UNCHANGED script
HostRemove == changes < MaxChanges /\ HostRemoveOp /\ UNCHANGED script

Next ==
    \/ StepPhaseOne
    \/ Flip
    \/ StepPhaseTwo
    \/ Synchronize
    \/ Reset
    \/ HostAdd
    \/ HostRemove

Spec == Init /\ [][Next]_vars

-----------------------------------------------------------------------------
(* The scripted host: k steps forward, Flip, reversal of dt, k steps back *)

\* What the scripted host records of a generation pair: the positions in
\* p_prev and p_curr, and the positions of the host particle array.
Pair(rr, ri) == [prev |-> Pos(ri.p_prev), curr |-> Pos(ri.p_curr), host |-> HostPos(rr.particles)]

InitRev ==
    /\ \E n \in 1..MaxN : \E d \in {Rat(1, 2), Rat(-1, 2)} :
            r = [HostInit(n, InitialParticles(n), REB_RUNNING) EXCEPT !.dt = d]
    /\ ri_janus = JanusInit(RInt(4))
    /\ force \in {"zero", "spring"}
    /\ call = NoCall
    /\ epoch = EpochInit
    /\ oob = FALSE
    /\ steps = 0
    /\ changes = 0
    /\ phase = "fwd"
    /\ hist = << >>
    /\ kfwd \in 1..MaxK

\* A forward step; the first one also records P_0, the pair Bootstrap left.
RevStepFwd ==
    /\ phase = "fwd"
    /\ steps < kfwd
    /\ Part1Op
    /\ hist' = (IF call'.boots = 1
                THEN Append(hist, Pair(call'.afterBoot, call'.riAfterBoot))
                ELSE hist) \o << Pair(r', ri_janus') >>
    /\ UNCHANGED <<phase, kfwd>>

RevFlip ==
    /\ phase = "fwd"
    /\ steps = kfwd
    /\ FlipOp
    /\ phase' = "flipped"
    /\ UNCHANGED <<hist, kfwd>>

RevNegateDt ==
    /\ phase = "flipped"
    /\ HostNegateDtOp
    /\ phase' = "back"
    /\ UNCHANGED <<hist, kfwd>>

RevStepBack ==
    /\ phase = "back"
    /\ steps < 2 * kfwd
    /\ Part1Op
    /\ UNCHANGED <<phase, hist, kfwd>>

NextRev == RevStepFwd \/ RevFlip \/ RevNegateDt \/ RevStepBack

SpecRev == InitRev /\ [][NextRev]_vars

-----------------------------------------------------------------------------
(* The scenario: one free particle, 100 steps, Flip, 100 further steps *)

InitScenario ==
    /\ r = [t |-> DZero, dt |-> Rat(1, 100), N |-> 1,
            integrator |-> REB_INTEGRATOR_JANUS, status |-> REB_RUNNING,
            particles |-> << Particle(RInt(1), RZero, RZero, RZero, RInt(1), RZero) >>,
            gravity_ignore_terms |-> 1]
    /\ ri_janus = JanusInit(RInt(1000000))
    /\ force = "zero"
    /\ call = NoCall
    /\ epoch = EpochInit
    /\ oob = FALSE
    /\ steps = 0
    /\ changes = 0
    /\ phase = "fwd"
    /\ hist = << >>
    /\ kfwd = 100

\* Flip, directly followed by the further steps: dt is not reversed.
ScenarioFlip ==
    /\ phase = "fwd"
    /\ steps = kfwd
    /\ FlipOp
    /\ phase' = "back"
    /\ UNCHANGED <<hist, kfwd>>

NextScenario == RevStepFwd \/ ScenarioFlip \/ RevStepBack

SpecScenario == InitScenario /\ [][NextScenario]_vars

-----------------------------------------------------------------------------
(* Helpers of the properties *)

RSub(a, b) == RAdd(a, RNeg(b))
RAbs(a) == [n |-> Abs(a.n), d |-> a.d]
RLeq(a, b) == a.n * b.d <= b.n * a.d

\* The real position a lattice position <<x, y, z>> decodes to.
Decode(p, int_scale) ==
    <<RDiv(RInt(p[1]), int_scale), RDiv(RInt(p[2]), int_scale), RDiv(RInt(p[3]), int_scale)>>

\* Two real positions differ by at most one quantum 1/int_scale on every axis.
Near(p, q, int_scale) ==
    \A a \in 1..3 : RLeq(RAbs(RSub(p[a], q[a])), RDiv(RInt(1), int_scale))

\* The number of steps taken since Flip, and the pair P_(k-j) of the forward run.
StepsBack == steps - kfwd
ForwardPair(i) == hist[i + 1]

-----------------------------------------------------------------------------
(* Reversibility, SpecRev *)

\* C1, as claimed: after k steps, Flip, reversal of dt and k more steps, the
\* positions in p_curr are the positions p_curr held right after Bootstrap.
C1_CurrHoldsOriginalCurr ==
    (phase = "back" /\ StepsBack = kfwd) =>
        Pos(ri_janus.p_curr) = ForwardPair(0).curr

\* C1, amended: after k steps, Flip, reversal of dt and k more steps, the
\* positions in p_prev are bit-for-bit the positions p_curr held right after
\* Bootstrap, and the positions in p_curr are those p_prev held then.
C1_PrevHoldsOriginalCurr ==
    (phase = "back" /\ StepsBack = kfwd) =>
        /\ Pos(ri_janus.p_prev) = ForwardPair(0).curr
        /\ Pos(ri_janus.p_curr) = ForwardPair(0).prev

C1_Witness ==
    /\ phase = "back"
    /\ StepsBack = kfwd
    /\ kfwd >= 2
    /\ force = "spring"
    /\ r.N = 2
    /\ ForwardPair(0).curr # ForwardPair(0).prev
    /\ ForwardPair(kfwd).curr # ForwardPair(0).curr

\* C2: after Flip and the reversal of dt, the (prev, curr) pair after j
\* further steps, 0 <= j <= k, is the pair P_(k-j) of the forward run with
\* prev and curr exchanged, equal on every body and axis.
C2_BackwardReplay ==
    (phase \in {"flipped", "back"}) =>
        /\ Pos(ri_janus.p_prev) = ForwardPair(kfwd - StepsBack).curr
        /\ Pos(ri_janus.p_curr) = ForwardPair(kfwd - StepsBack).prev

C2_Witness ==
    /\ phase = "back"
    /\ kfwd = 3
    /\ StepsBack = 2
    /\ force = "spring"
    /\ r.N = 2
    /\ ForwardPair(1).curr # ForwardPair(1).prev
    /\ ForwardPair(1) # ForwardPair(2)

-----------------------------------------------------------------------------
(* The scenario, SpecScenario *)

ScenarioEnd == phase = "back" /\ steps = 200
ScenarioScale == ri_janus.scale
HostAfter100 == ForwardPair(100).host[1]
CurrAfter100 == Decode(ForwardPair(100).curr[1], ScenarioScale)
HostAtEnd == HostPos(r.particles)[1]
CurrAtEnd == Decode(Pos(ri_janus.p_curr)[1], ScenarioScale)

\* C3, as claimed: whichever of the two observables is taken (the host
\* particle position, or the decode of p_curr), it is (1, 1, 0) to within one
\* quantum after the 100 steps and exactly (1, 0, 0) after Flip and 100
\* further steps.
C3_ScenarioAsClaimed ==
    ScenarioEnd =>
        /\ Near(HostAfter100, <<RInt(1), RInt(1), RZero>>, ScenarioScale)
        /\ HostAtEnd = <<RInt(1), RZero, RZero>>
        /\ Near(CurrAfter100, <<RInt(1), RInt(1), RZero>>, ScenarioScale)
        /\ CurrAtEnd = <<RInt(1), RZero, RZero>>

\* C3, amended: Bootstrap leaves curr = (1000000, 0, 0) and
\* prev = (1000000, -10000, 0); after the 100 steps the decode of p_curr is
\* exactly (1, 1, 0) while the host position is one generation behind,
\* (1, 0.99, 0); after Flip and 100 further steps the host position is exactly
\* (1, 0, 0) while the decode of p_curr is one generation further, (1, -0.01, 0).
C3_ScenarioOneGenerationApart ==
    ScenarioEnd =>
        /\ ForwardPair(0).curr[1] = <<1000000, 0, 0>>
        /\ ForwardPair(0).prev[1] = <<1000000, -10000, 0>>
        /\ CurrAfter100 = <<RInt(1), RInt(1), RZero>>
        /\ HostAfter100 = <<RInt(1), Rat(99, 100), RZero>>
        /\ HostAtEnd = <<RInt(1), RZero, RZero>>
        /\ CurrAtEnd = <<RInt(1), Rat(-1, 100), RZero>>

C3_Witness ==
    /\ ScenarioEnd
    /\ Len(hist) = 101
    /\ r.t = [s |-> 1, e |-> 1, hi |-> 2^26, lo |-> 3]
    /\ r.t # ToDouble(RInt(2))

-----------------------------------------------------------------------------
(* Free motion, SpecRev *)

\* C4: with zero acceleration every step leaves the integer displacement
\* curr - prev of every body and axis unchanged, so that after n steps curr is
\* curr_0 + n * (curr_0 - prev_0), where (prev_0, curr_0) is the pair
\* Bootstrap left.
C4_FreeParticleExact ==
    (force = "zero" /\ phase = "fwd" /\ steps >= 1) =>
        \A i \in 1..r.N : \A a \in 1..3 :
            LET prev0 == ForwardPair(0).prev[i][a]
                curr0 == ForwardPair(0).curr[i][a]
            IN  /\ Pos(ri_janus.p_curr)[i][a] = curr0 + steps * (curr0 - prev0)
                /\ Pos(ri_janus.p_curr)[i][a] - Pos(ri_janus.p_prev)[i][a] = curr0 - prev0

C4_Witness ==
    /\ force = "zero"
    /\ phase = "fwd"
    /\ steps = 3
    /\ ForwardPair(0).curr[1][1] # ForwardPair(0).prev[1][1]

-----------------------------------------------------------------------------
(* Bootstrap, Spec *)

\* The buffer to_int fills from the particle array ps of n bodies, starting
\* from nothing.
Encoded(ps, n, int_scale) == to_int([i \in 1..n |-> IntParticle(0)], ps, n, int_scale)

\* C5: in a run of step-phase-one calls since construction or reset during
\* which the particle count is constant and positive, whatever Flip,
\* step-phase-two and synchronize calls come between them, Bootstrap (and
\* with it the companion step) has run exactly once, in the first call.
C5_BootstrapOncePerEpoch ==
    (epoch.stepped /\ ~epoch.nchanged /\ r.N > 0) => epoch.boots = 1

C5_Witness ==
    /\ epoch.stepped
    /\ ~epoch.nchanged
    /\ r.N > 0
    /\ call.op = "part1"
    /\ call.boots = 0
    /\ epoch.boots = 1

\* C6: a step-phase-one call entered with a stored count different from the
\* host's count runs Bootstrap once; when it returns allocated_N is the new
\* count and the four buffers have that length, and Bootstrap left in p_curr
\* the encoding of the host particles of that call and in p_prev the encoding
\* of the result of the companion step, in every field of every entry.
C6_ReallocationCorrect ==
    (call.op = "part1" /\ call.alloc0 # call.entry.N) =>
        /\ call.boots = 1
        /\ ri_janus.allocated_N = call.entry.N
        /\ Len(ri_janus.p_prev) = call.entry.N
        /\ Len(ri_janus.p_curr) = call.entry.N
        /\ Len(ri_janus.p_next) = call.entry.N
        /\ Len(ri_janus.p_prevrecalc) = call.entry.N
        /\ call.riAfterBoot.p_curr = Encoded(call.entry.particles, call.entry.N, ri_janus.scale)
        /\ call.riAfterBoot.p_prev = Encoded(call.probed.particles, call.entry.N, ri_janus.scale)

C6_Witness ==
    /\ call.op = "part1"
    /\ call.boots = 1
    /\ call.alloc0 = 1
    /\ call.entry.N = 2
    /\ call.probed.particles # call.entry.particles
    /\ steps = 2

\* C7: when Bootstrap finishes, the host's time, timestep, integrator
\* selector and particle array are what they were on entry to the call,
\* whatever the companion step left in them; and a call advances the host
\* time by exactly dt whether it bootstraps or not.
C7_ProbeDoesNotLeak ==
    (call.op = "part1") =>
        /\ r.t = DoubleAdd(call.entry.t, ToDouble(call.entry.dt))
        /\ (call.boots = 1) =>
            /\ call.afterBoot.t = call.entry.t
            /\ call.afterBoot.dt = call.entry.dt
            /\ call.afterBoot.integrator = call.entry.integrator
            /\ call.afterBoot.particles = call.entry.particles

C7_Witness ==
    /\ call.op = "part1"
    /\ call.boots = 1
    /\ call.entry.N = 2
    /\ call.probed.t # call.entry.t
    /\ call.probed.dt # call.entry.dt
    /\ call.probed.integrator # call.entry.integrator
    /\ call.probed.particles # call.entry.particles
    /\ call.probed.status = REB_EXIT_ERROR

\* C8: the run status when Bootstrap finishes is the run status the host
\* held on entry to the call, whatever the companion step left behind.
C8_StatusRestored ==
    (call.op = "part1" /\ call.boots = 1) =>
        call.afterBoot.status = call.entry.status

-----------------------------------------------------------------------------
(* Lifecycle, Spec *)

\* C9: reset leaves the four generation buffers released and allocated_N 0,
\* and a second reset changes nothing.
C9_ResetReleasesAll ==
    (call.op = "reset") =>
        /\ ri_janus.allocated_N = 0
        /\ ri_janus.p_prev = << >>
        /\ ri_janus.p_curr = << >>
        /\ ri_janus.p_next = << >>
        /\ ri_janus.p_prevrecalc = << >>
        /\ reb_integrator_janus_reset(ri_janus) = ri_janus

\* C10: between calls, each of the four generation buffers has exactly
\* allocated_N entries.
C10_BufferLengths ==
    /\ Len(ri_janus.p_prev) = ri_janus.allocated_N
    /\ Len(ri_janus.p_curr) = ri_janus.allocated_N
    /\ Len(ri_janus.p_next) = ri_janus.allocated_N
    /\ Len(ri_janus.p_prevrecalc) = ri_janus.allocated_N

-----------------------------------------------------------------------------
(* The unscripted host, with every call leaving its name in the call record *)

InitFrame ==
    /\ \E n \in 0..MaxN : r = HostInit(n, InitialParticles(n), REB_RUNNING)
    /\ ri_janus = JanusInit(RInt(4))
    /\ force = "spring"
    /\ call = NoCall
    /\ epoch = EpochInit
    /\ oob = FALSE
    /\ steps = 0
    /\ changes = 0
    /\ phase = "free"
    /\ hist = << >>
    /\ kfwd = 0

FrameStepPhaseOne == steps < MaxSteps /\ Part1Op /\ UNCHANGED script

\* Flip; the record tells whether this call went past the end of a buffer.
FrameFlip ==
    /\ ~oob
    /\ \E res \in {reb_integrator_janus_flip(r, ri_janus)} :
        /\ ri_janus' = res.ri
        /\ oob' = (oob \/ res.oob)
        /\ call' = [op |-> "flip", oob |-> res.oob]
    /\ UNCHANGED <<r, force, epoch, steps, changes, script>>

FrameStepPhaseTwo ==
    /\ ~oob
    /\ \E res \in {reb_integrator_janus_part2(r, ri_janus)} :
        /\ r' = res.r
        /\ ri_janus' = res.ri
    /\ call' = [op |-> "part2"]
    /\ UNCHANGED <<force, epoch, oob, steps, changes, script>>

FrameSynchronize ==
    /\ ~oob
    /\ \E res \in {reb_integrator_janus_synchronize(r, ri_janus)} :
        /\ r' = res.r
        /\ ri_janus' = res.ri
    /\ call' = [op |-> "synchronize"]
    /\ UNCHANGED <<force, epoch, oob, steps, changes, script>>

FrameReset == ResetOp /\ UNCHANGED script
FrameHostAdd == changes < MaxChanges /\ HostAddOp /\ UNCHANGED script
FrameHostRemove == changes < MaxChanges /\ HostRemoveOp /\ UNCHANGED script

NextFrame ==
    \/ FrameStepPhaseOne
    \/ FrameFlip
    \/ FrameStepPhaseTwo
    \/ FrameSynchronize
    \/ FrameReset
    \/ FrameHostAdd
    \/ FrameHostRemove

SpecFrame == InitFrame /\ [][NextFrame]_vars

-----------------------------------------------------------------------------
(* Flip, SpecFrame *)

\* C11: a Flip called with N = allocated_N leaves in p_prev what p_curr held
\* and in p_curr what p_prev held, in every field of every body; p_next,
\* allocated_N, scale and the host (time, timestep, count, particles) are
\* unchanged, and Bootstrap does not run.
C11_FlipEffectAndFrame ==
    [][(call'.op = "flip" /\ r.N = ri_janus.allocated_N) =>
        /\ ri_janus'.p_prev = ri_janus.p_curr
        /\ ri_janus'.p_curr = ri_janus.p_prev
        /\ ri_janus'.p_next = ri_janus.p_next
        /\ ri_janus'.allocated_N = ri_janus.allocated_N
        /\ ri_janus'.scale = ri_janus.scale
        /\ r'.t = r.t
        /\ r'.dt = r.dt
        /\ r'.N = r.N
        /\ r'.particles = r.particles
        /\ epoch'.boots = epoch.boots]_vars

C11_Witness ==
    /\ call.op = "flip"
    /\ ~call.oob
    /\ r.N = 2
    /\ ri_janus.allocated_N = 2
    /\ ri_janus.p_prevrecalc = ri_janus.p_prev
    /\ ri_janus.p_prev # ri_janus.p_curr
    /\ epoch.boots = 1

-----------------------------------------------------------------------------
(* The core step, SpecRev *)

\* The generations a step-phase-one call starts its update from: those
\* Bootstrap left when it ran in this call, else those held on entry.
PreStep(c, ri) == IF c.boots = 1 THEN c.riAfterBoot ELSE ri

\* The accelerations of a host whose positions are decoded from curr.
AccelAt(rr, curr, N, int_scale, f) ==
    reb_update_acceleration(
        [rr EXCEPT !.particles = to_double(@, curr, N, int_scale)], f).particles

\* The postcondition of one step from the generations pre and host rr to
\* the instance ri1 and host r1.
CoreStepPost(pre, rr, f, ri1, r1) ==
    LET N == rr.N
        dt == rr.dt
        acc == AccelAt(rr, pre.p_curr, N, pre.scale, f)
        F(a) == Trunc(RMul(RMul(RMul(pre.scale, dt), dt), a))
    IN  /\ \A i \in 1..N :
            /\ ri1.p_next[i].x = -pre.p_prev[i].x + 2 * pre.p_curr[i].x + F(acc[i].ax)
            /\ ri1.p_next[i].y = -pre.p_prev[i].y + 2 * pre.p_curr[i].y + F(acc[i].ay)
            /\ ri1.p_next[i].z = -pre.p_prev[i].z + 2 * pre.p_curr[i].z + F(acc[i].az)
            /\ ri1.p_prev[i] = pre.p_curr[i]
            /\ ri1.p_curr[i] = ri1.p_next[i]
        /\ r1.t = DoubleAdd(rr.t, ToDouble(dt))

\* C12: in every step-phase-one call, for every body and axis,
\* next = -prev + 2*curr + F with F the truncation toward zero of
\* scale*dt*dt*a and a the acceleration at the positions decoded from the
\* pre-step curr; on return prev holds the pre-step curr, curr holds next,
\* and the host time is the time on entry plus the dt read on entry.
C12_CoreStepPostcondition ==
    [][steps' = steps + 1 =>
        CoreStepPost(PreStep(call', ri_janus), r, force, ri_janus', r')]_vars

\* A step whose force term on body 1 is -5/4 before truncation, -1 after.
C12_Witness ==
    /\ call.op = "part1"
    /\ call.boots = 1
    /\ force = "spring"
    /\ r.N = 2
    /\ call.riAfterBoot.p_curr[1].x = 5
    /\ ri_janus.p_next[1].x =
            -call.riAfterBoot.p_prev[1].x + 2 * call.riAfterBoot.p_curr[1].x - 1
    /\ ri_janus.p_prev[1] = call.riAfterBoot.p_curr[1]
    /\ ri_janus.p_curr[1] = ri_janus.p_next[1]
    /\ r.t = DoubleAdd(call.entry.t, ToDouble(call.entry.dt))

-----------------------------------------------------------------------------
(* Independence of the host's positions and velocities, SpecRev *)

\* The positions and velocities another host could hold for a body.
OtherBodies ==
    { BodyA, BodyB, Particle(RInt(3), RInt(-2), Rat(1, 4), RInt(-1), RZero, RInt(5)) }

\* The particle arrays that agree with ps in length, masses and stored
\* accelerations, with positions and velocities taken from OtherBodies.
OtherHosts(ps) ==
    { [i \in 1..Len(ps) |->
            [ps[i] EXCEPT !.x = q[i].x, !.y = q[i].y, !.z = q[i].z,
                          !.vx = q[i].vx, !.vy = q[i].vy, !.vz = q[i].vz]] :
        q \in [1..Len(ps) -> OtherBodies] }

\* The three generations of an instance.
Generations(ri) == <<ri.p_next, ri.p_prev, ri.p_curr>>

\* C13: a step-phase-one call with N = allocated_N leaves the same p_next,
\* p_prev and p_curr as the same call would from a host that differs only
\* in the positions and velocities of its particles.
C13_HostStateDoesNotInfluence ==
    [][(steps' = steps + 1 /\ r.N = ri_janus.allocated_N) =>
        \A ps2 \in OtherHosts(r.particles) :
            Generations(reb_integrator_janus_part1(
                [r EXCEPT !.particles = ps2], ri_janus, force,
                r.status, IntParticle(Indeterminate)).ri) = Generations(ri_janus')]_vars

\* A step without Bootstrap, under a force, from a host whose positions
\* were not the decode of the generation the force was evaluated at.
C13_Witness ==
    /\ call.op = "part1"
    /\ call.boots = 0
    /\ call.alloc0 = 2
    /\ r.N = 2
    /\ force = "spring"
    /\ HostPos(call.entry.particles) # HostPos(r.particles)
    /\ Cardinality(OtherHosts(call.entry.particles) \ {call.entry.particles}) >= 8

-----------------------------------------------------------------------------
(* Step-phase-two and synchronize, SpecFrame *)

\* C14: a step-phase-two or synchronize call, from any reachable state,
\* leaves p_prev, p_curr, p_next, the scratch buffer, allocated_N, scale and
\* the host's time, timestep, run status, selector, count and particle array
\* as they were.
C14_Part2AndSynchronizeAreNoOps ==
    [][call'.op \in {"part2", "synchronize"} =>
        /\ ri_janus'.p_prev = ri_janus.p_prev
        /\ ri_janus'.p_curr = ri_janus.p_curr
        /\ ri_janus'.p_next = ri_janus.p_next
        /\ ri_janus'.p_prevrecalc = ri_janus.p_prevrecalc
        /\ ri_janus'.allocated_N = ri_janus.allocated_N
        /\ ri_janus'.scale = ri_janus.scale
        /\ r'.t = r.t
        /\ r'.dt = r.dt
        /\ r'.status = r.status
        /\ r'.integrator = r.integrator
        /\ r'.N = r.N
        /\ r'.particles = r.particles]_vars

\* A synchronize call between two steps of a two-body run.
C14_Witness ==
    /\ call.op = "synchronize"
    /\ steps >= 1
    /\ ri_janus.allocated_N = 2
    /\ r.N = 2
    /\ ri_janus.p_prev # ri_janus.p_curr
    /\ r.t # DZero

-----------------------------------------------------------------------------
(* The first step after reset, SpecFrame *)

\* What the same call leaves in a newly constructed instance of that scale.
FreshStep(rr, ri, f) ==
    reb_integrator_janus_part1(rr, JanusInit(ri.scale), f, rr.status, IntParticle(Indeterminate)).ri

\* C15: the first step-phase-one call after a reset (or after construction)
\* with N > 0 runs Bootstrap, whatever N was before the reset: the companion
\* step runs on the host of that call, p_curr is encoded from that host and
\* p_prev from the result of the companion step, and when the call returns
\* p_prev and the positions of p_curr are those a newly constructed instance
\* would hold, so that nothing of the generations held before the reset is
\* left in them.
C15_FreshBootstrapAfterReset ==
    [][(steps' = steps + 1 /\ ~epoch.stepped /\ r.N > 0) =>
        /\ call'.boots = 1
        /\ call'.alloc0 = 0
        /\ call'.probed.particles =
                reb_step(ProbeSetup(r, r.dt), force, r.status).particles
        /\ call'.riAfterBoot.p_curr = Encoded(r.particles, r.N, ri_janus.scale)
        /\ call'.riAfterBoot.p_prev = Encoded(call'.probed.particles, r.N, ri_janus.scale)
        /\ ri_janus'.p_prev = FreshStep(r, ri_janus, force).p_prev
        /\ Pos(ri_janus'.p_curr) = Pos(FreshStep(r, ri_janus, force).p_curr)]_vars

\* The second step of a run whose count never changed, taken after a reset:
\* it is the only Bootstrap since that reset, and the host it encodes is not
\* the one the first step encoded.
C15_Witness ==
    /\ call.op = "part1"
    /\ call.boots = 1
    /\ call.alloc0 = 0
    /\ epoch.boots = 1
    /\ steps = 2
    /\ changes = 0
    /\ r.N = 2
    /\ call.entry.particles # InitialParticles(2)
    /\ call.riAfterBoot.p_curr = Encoded(call.entry.particles, 2, ri_janus.scale)

-----------------------------------------------------------------------------
(* The configuration of the companion step, Spec *)

\* C16: when the companion step of Bootstrap runs, p_curr holds the encoding
\* of the host particles of the call, the selector is the companion scheme,
\* the timestep is minus the caller's dt and the run status is REB_RUNNING;
\* p_prev is not yet encoded, it is encoded from the result of the step.
C16_ProbeConfiguration ==
    (call.op = "part1" /\ call.boots = 1) =>
        /\ call.riAtProbe.p_curr =
                Encoded(call.entry.particles, call.entry.N, ri_janus.scale)
        /\ call.atProbe.integrator = REB_INTEGRATOR_WHFAST
        /\ call.atProbe.dt = RNeg(call.entry.dt)
        /\ call.atProbe.particles = call.entry.particles
        /\ call.riAfterBoot.p_prev =
                Encoded(call.probed.particles, call.entry.N, ri_janus.scale)
        /\ call.riAfterBoot.p_curr = call.riAtProbe.p_curr
        /\ call.atProbe.status = REB_RUNNING

-----------------------------------------------------------------------------
(* Flip and the buffer bounds, SpecFrame *)

\* C17: once a step has completed since the last reset, a Flip, whatever
\* count N the host holds by then, reads and writes no entry at or beyond
\* allocated_N of p_prev, p_curr or the scratch buffer.
C17_FlipStaysInsideBuffers ==
    (call.op = "flip" /\ epoch.stepped) => ~call.oob

-----------------------------------------------------------------------------
(* What the host holds when a step returns, SpecRev *)

\* The integer difference d divided by 2*dt*scale.
Centred(d, int_scale, dt) == RDiv(RInt(d), RMul(RMul(RInt(2), dt), int_scale))

\* The state the host reports after a step from the generations pre with
\* timestep dt: positions of p_prev, velocities centred on that generation.
ReportedLagging(pre, dt, N, ri1, r1) ==
    \A i \in 1..N :
        /\ HostPos(r1.particles)[i] = Decode(Pos(ri1.p_prev)[i], ri1.scale)
        /\ Pos(ri1.p_prev)[i] = Pos(pre.p_curr)[i]
        /\ Pos(ri1.p_curr)[i] # Pos(ri1.p_prev)[i] =>
                HostPos(r1.particles)[i] # Decode(Pos(ri1.p_curr)[i], ri1.scale)
        /\ r1.particles[i].vx = Centred(ri1.p_curr[i].x - pre.p_prev[i].x, ri1.scale, dt)
        /\ r1.particles[i].vy = Centred(ri1.p_curr[i].y - pre.p_prev[i].y, ri1.scale, dt)
        /\ r1.particles[i].vz = Centred(ri1.p_curr[i].z - pre.p_prev[i].z, ri1.scale, dt)

\* C18: when a step-phase-one call returns, the host positions are the
\* decode of p_prev as rotated by the call (the pre-step p_curr), not of the
\* new p_curr; the host velocities are (new p_curr - pre-step p_prev) divided
\* by 2*dt*scale; and the host time is already the entry time plus dt.
C18_ReportedStateLags ==
    [][steps' = steps + 1 =>
        /\ ReportedLagging(PreStep(call', ri_janus), r.dt, r.N, ri_janus', r')
        /\ r'.t = DoubleAdd(r.t, ToDouble(r.dt))]_vars

\* A bootstrapping step of two bodies under a force, after which the host
\* positions are those of p_prev and differ from those of p_curr, with a
\* nonzero velocity.
C18_Witness ==
    /\ call.op = "part1"
    /\ call.boots = 1
    /\ force = "spring"
    /\ r.N = 2
    /\ r.t # call.entry.t
    /\ \A i \in 1..2 :
        /\ HostPos(r.particles)[i] = Decode(Pos(ri_janus.p_prev)[i], ri_janus.scale)
        /\ HostPos(r.particles)[i] # Decode(Pos(ri_janus.p_curr)[i], ri_janus.scale)
    /\ r.particles[1].vx =
            Centred(ri_janus.p_curr[1].x - call.riAfterBoot.p_prev[1].x,
                    ri_janus.scale, call.entry.dt)
    /\ r.particles[1].vx # RZero

====
